---- MODULE Spec2Model ----
(***************************************************************************)
(* LuckyFive round engine.  The repository holds three variants of the     *)
(* engine:                                                                 *)
(*   "timers"   game/luckyFive.js, setTimeout chain  (unnamed/part_001     *)
(*              lines 1..468)                                              *)
(*   "interval" game/luckyFive.js, 500 ms polling loop (unnamed/part_001   *)
(*              lines 470..863)                                            *)
(*   "server"   server.js, GameRound class and 1000 ms polling loop        *)
(* The variable engine says which one runs; it never changes.              *)
(*                                                                         *)
(* Node runs one callback at a time, so an action is one callback run from *)
(* its start (or from the point an await resumes) to its next await.  The  *)
(* database is MySQL: a transaction's writes become visible at commit, and *)
(* SELECT ... FOR UPDATE holds the row until commit or rollback, so a      *)
(* transaction is one step for every other callback.  Statements a         *)
(* callback awaits one after the other on its own connection, with nothing *)
(* but local code between them, are taken in one action with the code      *)
(* that leads to them; the code after the last of them is the next action. *)
(* What a callback emits is in out until the next action, flush, has sent  *)
(* it: no callback reads it.                                                *)
(*                                                                         *)
(* Modelling decisions:                                                    *)
(*  - balance is the users.balance column; sessionBalance is the copy of it*)
(*    a session caches.                                                    *)
(*  - a session is an object: a handler that fetched it before an await    *)
(*    still holds it when userSessions has been given another one for the  *)
(*    socket, and then reads and writes the one it holds (obj in the       *)
(*    record of the request).                                              *)
(*  - db/dbConfig.js exports the pool as pool; game/luckyFive.js asks for  *)
(*    promisePool.  The handlers are modelled with the pool bound, as      *)
(*    server.js binds it.                                                  *)
(*  - after round MaxRounds has been replaced no new request or timer is   *)
(*    taken; callbacks that are waiting on an await still resume.          *)
(*  - clients stake on line StakeLine; the draw ranges over every line.    *)
(*  - game_rounds is the table of that name, a row's insertId its place in *)
(*    it; round.persistedRoundId is a field of currentRound, and the run of*)
(*    the result processing keeps what persistRoundResult found in it.     *)
(*  - the rows server.js writes have NOW(), the database's clock, as their *)
(*    times; they are kept as that word.                                   *)
(*  - a transaction that throws commits nothing, whether the handler rolls *)
(*    it back (game/luckyFive.js) or leaves it open (server.js).           *)
(*                                                                         *)
(* Specifications:                                                         *)
(*   Spec      the engine and its clients from start-up; requests name     *)
(*             line StakeLine and amounts above zero.                      *)
(*   LiveSpec  the engine among authenticated clients, with the fairness   *)
(*             of the event loop, for what must eventually happen.         *)
(*   WideSpec  the engine among clients whose requests may name a line the *)
(*             game does not have and negative amounts and totals.         *)
(*   BootSpec  bootstrap alone, on any startTime and clock reading.        *)
(*   PersistSpec  LiveSpec's clients without its fairness, and the INSERT of*)
(*             persistRoundStart returning at any time; in the other       *)
(*             specifications that INSERT has not returned yet when        *)
(*             the round ends.                                             *)
(***************************************************************************)
EXTENDS Integers, Sequences, FiniteSets, TLC

\* ------------------------------------------------------------------ bounds
MaxRounds == 1      \* rounds followed up to the creation of the next one
MaxRequests == 2    \* bet requests game/luckyFive.js acts on in one run
MaxRequests_server == 4  \* bet requests server.js acts on in one run (a snapshot
                         \* takes two: update_pending_bet and submit_final_bets)
MaxAuths == 2       \* authenticate requests, of all sockets, that reach the database
MaxClosed == 1      \* sockets that disconnect in one run
MaxStake == 1       \* largest amount a client names for one line
MaxTotal == 1       \* largest totalAmount a client names
InitBalance == 1    \* users.balance of every account at start-up
StartClock == 0     \* Date.now() when the process starts
LatencyMs == 15000  \* how long the awaits of the result processing may take

BootGrain == 5000    \* the step, in ms, of the clock readings bootstrap is tried on
MaxBootClock == 40   \* the latest reading of the clock in bootstrap, in steps
MaxBootStart == 3    \* the latest startTime of the round bootstrap finds, in steps

Users == {"u1", "u2"}
Sockets == {"s1", "s2"}
StakeLine == 1      \* the line clients stake on (any line can win)

\* ------------------------------------------------------- program constants
NumLines == 5
FREEZE_OFFSET_MS == 25000
RESULT_OFFSET_MS == 30000
ROUND_DURATION_MS == 40000
WIN_MULTIPLIER == 5

\* the polling variant of game/luckyFive.js
ROUND_DURATION_MS_interval == 30000
RESULT_OFFSET_MS_interval == 27000

\* server.js
FREEZE_MS_server == 25000
WINNER_DELAY_MS_server == 2000
END_MS_server == 30000
NEXT_ROUND_MS_server == 33000
TICK_MS_server == 1000
WIN_FACTOR_server == 2

Lines == 1..NumLines
NoUser == "none"
NoTimer == -1
Null == 0

VARIABLES
  engine,        \* "timers" | "interval" | "server"
  now,           \* Date.now() when the last timer ran
  currentRound,  \* let currentRound
  roundNo,       \* how many rounds have been created
  conn,          \* socket -> "open" (connected, or free to connect) | "closed"
  userSessions,  \* const userSessions = new Map()
  balance,       \* users.balance, committed
  transactions,  \* table transactions, committed: row -> how many of it
  pendingBets,   \* socket -> pendingBets of the session object made for it
                 \* (server.js only)
  submits,       \* submit_final_bets calls that are at the await of commit,
                 \* with what their closures hold (a set: they resume in
                 \* any order, and equal calls store the same snapshot)
  updates,       \* update_pending_bet calls that are at an await (server.js)
  nRequests,     \* bet requests the server has acted on
  settle,        \* result processing runs that are at an await
  auths,         \* authenticate calls that are at an await
  nAuths,        \* socket -> authenticate requests that reached the database
  broadcasts,    \* io.emit history: {<<event, roundId>>}
  game_rounds,   \* table game_rounds, committed: row number insertId
  inserts,       \* persistRoundStart calls that are at the await of their
                 \* INSERT, each with the startTime of its round
  sessionBalance,\* socket -> balance of the session object made for it
  out            \* what the last callback emitted

vars == <<engine, now, currentRound, roundNo, conn, userSessions, pendingBets,
          balance, transactions, submits, updates, nRequests, settle, auths,
          nAuths, broadcasts, game_rounds, inserts, sessionBalance, out>>

roundVars == <<currentRound, roundNo, broadcasts>>
dbVars == <<balance, transactions, game_rounds>>
sockVars == <<conn, userSessions, auths, nAuths, pendingBets, sessionBalance>>

\* A callback starts when the one before it has returned and what it emitted
\* has been sent.
Idle == out = {}

\* Requests and timers are followed until round MaxRounds is over; the
\* callbacks that are at an await by then still resume.
Ready == Idle /\ roundNo <= MaxRounds

\* ------------------------------------------------------------- data shapes
NoSession == [userId |-> NoUser]

ZeroBets == [l \in Lines |-> 0]

\* The bets objects a client may send.
BetChoices == {[ZeroBets EXCEPT ![StakeLine] = a] : a \in 0..MaxStake}

\* A bets object is kept as a function from the numbers of its keys (key
\* lineN is N): the keys a program gives it are line1..line5, and a request
\* that names another line adds that key.
NumKeys(b) == Cardinality(DOMAIN b)

\* betsObj[line] || 0
Val(b, k) == IF k \in DOMAIN b THEN b[k] ELSE 0

\* betsObj[line] = v
Put(b, k, v) == IF k \in DOMAIN b THEN [b EXCEPT ![k] = v] ELSE b @@ (k :> v)

RECURSIVE SumLines(_, _)
SumLines(b, n) == IF n = 0 THEN 0 ELSE b[n] + SumLines(b, n - 1)

\* Object.values(bets).reduce((s, v) => s + Number(v || 0), 0)
SumBets(b) == SumLines(b, NumKeys(b))

\* Map.prototype.set on an insertion-ordered Map kept as a sequence of entries
MapHas(m, k) == \E i \in 1..Len(m) : m[i].key = k

\* A set that adds an entry also when the key is there
MapSet_append(m, k, v) == Append(m, v)

MapSet(m, k, v) ==
  IF MapHas(m, k)
    THEN [i \in 1..Len(m) |-> IF m[i].key = k THEN v ELSE m[i]]
    ELSE Append(m, v)

MapGet(m, k) == m[CHOOSE i \in 1..Len(m) : m[i].key = k]

Emit(to, ev, msg) == [to |-> to, ev |-> ev, msg |-> msg]

\* ------------------------------------------------------------ timers engine
\* A round whose result is due RESULT_OFFSET_MS after its freeze
createRound_late(s) ==
  [startTime |-> s,
   freezeTime |-> s + FREEZE_OFFSET_MS,
   resultTime |-> s + FREEZE_OFFSET_MS + RESULT_OFFSET_MS,
   endTime |-> s + ROUND_DURATION_MS,
   persistedRoundId |-> Null,
   winningLine |-> Null,
   bets |-> <<>>,
   finalBets |-> <<>>,
   timers |-> [start |-> NoTimer, freeze |-> NoTimer, result |-> NoTimer]]

\* part_001:34-47
createRound(s) ==
  [startTime |-> s,
   freezeTime |-> s + FREEZE_OFFSET_MS,
   resultTime |-> s + RESULT_OFFSET_MS,
   endTime |-> s + ROUND_DURATION_MS,
   persistedRoundId |-> Null,
   winningLine |-> Null,
   bets |-> <<>>,
   finalBets |-> <<>>,
   timers |-> [start |-> NoTimer, freeze |-> NoTimer, result |-> NoTimer]]

Max(a, b) == IF a >= b THEN a ELSE b

\* A scheduling that sets no timer
scheduleRoundTimers_none(round, t) == round

\* part_001:102-141; a timer is kept as the instant it is due
scheduleRoundTimers(round, t) ==
  [round EXCEPT !.timers =
     [start |-> t + Max(0, round.startTime - t),
      freeze |-> t + Max(0, round.freezeTime - t),
      result |-> t + Max(0, round.resultTime - t)]]

\* Timers of one round fire in the order of their due instants, and timers
\* due at the same instant in the order they were set: start, freeze, result.
TimerDue(k) ==
  /\ Ready
  /\ engine = "timers"
  /\ currentRound.timers[k] # NoTimer

Fired(k) == [currentRound EXCEPT !.timers[k] = NoTimer]

\* --------------------------------------------------------- interval engine
\* part_001:494-507; s is Date.now()
createRound_interval(s) ==
  [startTime |-> s,
   freezeTime |-> s + FREEZE_OFFSET_MS,
   resultTime |-> s + RESULT_OFFSET_MS_interval,
   endTime |-> s + ROUND_DURATION_MS_interval,
   persistedRoundId |-> Null,
   winningLine |-> Null,
   bets |-> <<>>,
   finalBets |-> <<>>,
   startAnnounced |-> FALSE,
   freezeAnnounced |-> FALSE]

\* ----------------------------------------------------------------- database
\* INSERT INTO transactions
Insert(table, row) ==
  IF row \in DOMAIN table
    THEN [table EXCEPT ![row] = @ + 1]
    ELSE table @@ (row :> 1)

\* A row of game_rounds: (start_time) or (start_time, end_time, winning_line)
\* in game/luckyFive.js, (round_id, NOW(), NOW(), winning_line) in server.js
RoundRow(round_id, start_time, end_time, winning_line) ==
  [round_id |-> round_id, start_time |-> start_time, end_time |-> end_time,
   winning_line |-> winning_line]

BetRow(user, amount, rid) ==
  [user |-> user, amount |-> amount, type |-> "bet", round |-> rid]

\* for (const [line, amt] of Object.entries(bets)) { if (amountNum <= 0) continue; INSERT }
RECURSIVE InsertBets(_, _, _, _, _)
InsertBets(table, user, bets, rid, n) ==
  IF n = 0 THEN table
  ELSE LET t == InsertBets(table, user, bets, rid, n - 1) IN
       IF bets[n] > 0 THEN Insert(t, BetRow(user, bets[n], rid)) ELSE t

WinRow(user, amount, rid) ==
  [user |-> user, amount |-> amount, type |-> "win", round |-> rid]

\* ----------------------------------------------------------------- sessions
SessionOf(s) == IF MapHas(userSessions, s) THEN MapGet(userSessions, s) ELSE NoSession

\* session.balance = v for the session object made for socket s
SetBalance(s, v) == [sessionBalance EXCEPT ![s] = v]

\* A callback that got its session from userSessions before an await holds
\* that object when it resumes. obj.gen = 0: it is the object made for the
\* socket by its last authenticate, whose fields are pendingBets[sock] and
\* sessionBalance[sock]. Otherwise userSessions.set has put a new object in
\* its place since, and obj has the fields of the one the callback holds.
\* game/luckyFive.js writes to the object it holds and never reads it back
\* (part_001:218, 651 fall back to session.balance only when the user's row
\* is missing), so there the replaced object is known by its number alone.
LiveObj == [gen |-> 0, pendingBets |-> ZeroBets, balance |-> 0]

\* How many authenticate requests of socket s have made their session
AuthsDone(s) == nAuths[s] - Cardinality({a \in auths : a.sock = s})

\* The callback of record h after userSessions.set(s, {...}) of authenticate
Detached(h, s) ==
  IF h.sock = s /\ h.obj.gen = 0
    THEN [h EXCEPT !.obj = [gen |-> AuthsDone(s) + 1,
                            pendingBets |-> pendingBets[s],
                            balance |-> IF engine = "server" THEN sessionBalance[s]
                                        ELSE 0]]
    ELSE h

ObjBets(h) == IF h.obj.gen = 0 THEN pendingBets[h.sock] ELSE h.obj.pendingBets

ObjBalance(h) == IF h.obj.gen = 0 THEN sessionBalance[h.sock] ELSE h.obj.balance

\* const pendingBets = userSession.pendingBets (server.js:431): a finalize
\* holds the bets object its session had when it came in. own = FALSE: it is
\* still the one its session has. Otherwise userSession.pendingBets = {} of
\* another finalize has given the session a new one since, and bets is what
\* the one it holds has, which nothing changes any more.
SessionBets == [own |-> FALSE, bets |-> ZeroBets]

LocalBets(h) == IF h.held.own THEN h.held.bets ELSE ObjBets(h)

\* The finalize g after the callback of finalize h has done
\* userSession.pendingBets = {}
Parted(g, h) ==
  IF g.sock = h.sock /\ g.obj.gen = h.obj.gen /\ ~g.held.own
    THEN [g EXCEPT !.held = [own |-> TRUE, bets |-> ObjBets(h)]]
    ELSE g

\* Record r after the callback of record h has set pendingBets = b and
\* balance = v in the replaced object it holds
Rewritten(r, h, b, v) ==
  IF r.sock = h.sock /\ r.obj.gen = h.obj.gen
    THEN [r EXCEPT !.obj.pendingBets = b, !.obj.balance = v]
    ELSE r

\* userSession.pendingBets = b and userSession.balance = v by the callback of
\* record h of server.js; S and U are the submits and the updates that stay
SessionWrite(h, b, v, S, U) ==
  IF h.obj.gen = 0
    THEN /\ pendingBets' = [pendingBets EXCEPT ![h.sock] = b]
         /\ sessionBalance' = SetBalance(h.sock, v)
         /\ submits' = S
         /\ updates' = U
    ELSE /\ UNCHANGED <<pendingBets, sessionBalance>>
         /\ submits' = {Rewritten(r, h, b, v) : r \in S}
         /\ updates' = {Rewritten(r, h, b, v) : r \in U}

\* A delete that clears the Map
MapDelete_clear(m, k) == <<>>

\* Map.prototype.delete
MapDelete(m, k) == SelectSeq(m, LAMBDA e : e.key # k)

RemoveAt(q, i) == [j \in 1..(Len(q) - 1) |-> IF j < i THEN q[j] ELSE q[j + 1]]

\* for (const [sId, session] of userSessions.entries()) if (session.userId === userId)
FirstSessionOf(sess, user) ==
  LET hits == {i \in 1..Len(sess) : sess[i].userId = user}
  IN IF hits = {} THEN 0 ELSE CHOOSE i \in hits : \A j \in hits : i <= j

IsLucky == engine \in {"timers", "interval"}

\* ------------------------------------------------- luckyFive socket handlers
\* socket.emit and io.emit hand the events to the transport
flush ==
  /\ out # {}
  /\ out' = {}
  /\ UNCHANGED <<engine, now, roundVars, sockVars, dbVars, submits, updates, nRequests,
                 settle, inserts>>

\* What a client may send as a token: none, one jwt.verify rejects, or a valid
\* one naming an account or a user id that has no row in users.
Tokens == {"", "bad"} \cup Users \cup {"ghost"}

\* Accounts and sockets are interchangeable, so the first socket names the
\* first account only: the two sockets are then of one user or of two.
TokensOf(s) == IF s = "s1" THEN Tokens \ {"u2"} ELSE Tokens

\* The error a failed authenticate is answered with: part_001:268-289 and
\* server.js:321-361 (which has no test for a missing token: jwt.verify throws)
AuthError(kind) ==
  IF kind = "missing" THEN (IF IsLucky THEN "No token" ELSE "Authentication failed")
  ELSE IF kind = "unknown" THEN "User not found"
  ELSE IF IsLucky THEN "Invalid token" ELSE "Authentication failed"

\* The authenticate requests that have reached the database
RECURSIVE SumOver(_, _)
SumOver(f, S) ==
  IF S = {} THEN 0
  ELSE LET x == CHOOSE y \in S : TRUE IN f[x] + SumOver(f, S \ {x})

AuthsMade == SumOver(nAuths, Sockets)

\* socket.on("authenticate") up to the await of the SELECT; when the SELECT
\* finds no row or throws, also the reply.
authenticate(s, token) ==
  /\ Ready
  /\ conn[s] = "open"
  /\ IF token = ""
       THEN /\ out' = {Emit(s, "auth_error", AuthError("missing"))}
            /\ UNCHANGED <<auths, nAuths>>
     ELSE IF token = "bad"
       THEN /\ out' = {Emit(s, "auth_error", AuthError("invalid"))}
            /\ UNCHANGED <<auths, nAuths>>
     ELSE IF token \notin Users
       THEN /\ out' = {Emit(s, "auth_error", AuthError("unknown"))}
            /\ UNCHANGED <<auths, nAuths>>
     ELSE \/ /\ AuthsMade < MaxAuths
             /\ auths' = auths \cup {[sock |-> s, userId |-> token,
                                      balance |-> balance[token]]}
             /\ nAuths' = [nAuths EXCEPT ![s] = @ + 1]
             /\ out' = {}
          \/ \* the query throws
             /\ out' = {Emit(s, "auth_error", AuthError("invalid"))}
             /\ UNCHANGED <<auths, nAuths>>
  /\ UNCHANGED <<engine, now, roundVars, conn, userSessions, pendingBets, dbVars,
                 sessionBalance, submits, updates, nRequests, settle, inserts>>

\* The code of authenticate after the SELECT has returned the user's row
authenticated(a) ==
  /\ Idle
  /\ auths' = auths \ {a}
  /\ userSessions' =
       MapSet(userSessions, a.sock, [key |-> a.sock, userId |-> a.userId])
  /\ pendingBets' = [pendingBets EXCEPT ![a.sock] = ZeroBets]
  /\ sessionBalance' = [sessionBalance EXCEPT ![a.sock] = a.balance]
  /\ submits' = {Detached(h, a.sock) : h \in submits}
  /\ updates' = {Detached(u, a.sock) : u \in updates}
  /\ settle' = IF IsLucky /\ Len(settle) = 1 /\ settle[1].pc = "notify"
                 THEN <<Detached(settle[1], a.sock)>>
                 ELSE settle
  /\ out' = {Emit(a.sock, IF IsLucky THEN "authenticated" ELSE "user_data",
                  <<a.userId, a.balance>>)}
  /\ UNCHANGED <<engine, now, roundVars, conn, nAuths, dbVars, nRequests,
                 inserts>>

\* socket.on("disconnect")
disconnect(s) ==
  /\ Ready
  /\ conn[s] = "open"
  /\ Cardinality({t \in Sockets : conn[t] = "closed"}) < MaxClosed
  /\ conn' = [conn EXCEPT ![s] = "closed"]
  /\ userSessions' = MapDelete(userSessions, s)
  /\ out' = {}
  /\ UNCHANGED <<engine, now, roundVars, auths, nAuths, pendingBets, dbVars,
                 sessionBalance, submits, updates, nRequests, settle, inserts>>

\* What a client may send as data.operation and data.amount of place_bet
Operations == {"add", "remove", "none"}

AmountChoices == 1..MaxStake

\* What a client may send as data.line
LineChoices == {StakeLine}

\* A place_bet that takes the amount from the account of the session
place_bet_charged(s, line, operation, amount) ==
  /\ Ready
  /\ IsLucky
  /\ conn[s] = "open"
  /\ nRequests < MaxRequests
  /\ nRequests' = nRequests + 1
  /\ balance' = [u \in Users |-> IF u = SessionOf(s).userId
                                   THEN balance[u] - amount ELSE balance[u]]
  /\ out' = {Emit(s, "place_bet_ack", <<TRUE, ZeroBets>>)}
  /\ UNCHANGED <<engine, now, roundVars, sockVars, transactions, game_rounds,
                 submits, updates, settle, inserts>>

\* socket.on("place_bet"): no condition on the phase of the round, on the
\* line or on the amount
place_bet(s, line, operation, amount) ==
  LET betsObj == IF MapHas(currentRound.bets, s)
                   THEN MapGet(currentRound.bets, s).bets ELSE ZeroBets
      updated == IF operation = "add"
                   THEN Put(betsObj, line, Val(betsObj, line) + amount)
                 ELSE IF operation = "remove"
                   THEN Put(betsObj, line, 0)
                 ELSE betsObj
  IN
  /\ Ready
  /\ IsLucky
  /\ conn[s] = "open"
  /\ nRequests < MaxRequests
  /\ nRequests' = nRequests + 1
  /\ currentRound' = [currentRound EXCEPT !.bets =
                        MapSet(@, s, [key |-> s, bets |-> updated])]
  /\ out' = {Emit(s, "place_bet_ack", <<TRUE, updated>>)}
  /\ UNCHANGED <<engine, now, roundNo, broadcasts, sockVars, dbVars, submits, updates,
                 settle, inserts>>

\* What a client may send as payload.totalAmount (0 also stands for a payload
\* without the field: both are falsy).
TotalChoices == 0..MaxTotal

\* What a client may send as payload.roundId: the id of the current round or
\* another value.
RoundIdChoices == {currentRound.startTime, currentRound.startTime - 1}

\* Number(payload.totalAmount || Object.values(bets).reduce(...))
TotalAmount(bets, total) == IF total # 0 THEN total ELSE SumBets(bets)

\* A check that lets a total of one more than the balance through
Insufficient_lenient(currentBalance, totalAmount) ==
  currentBalance + 1 < totalAmount

\* A check against the balance the account had at start-up, not the row
\* read under the lock
Insufficient_stale(currentBalance, totalAmount) == InitBalance < totalAmount

\* currentBalance < totalAmount
Insufficient(currentBalance, totalAmount) == currentBalance < totalAmount

\* socket.on("submit_final_bets") up to await conn.commit(): the checks and
\* the debit transaction
submit_final_bets(s, roundId, bets, total) ==
  LET session == SessionOf(s)
      userId == session.userId
      totalAmount == TotalAmount(bets, total)
  IN
  /\ Ready
  /\ IsLucky
  /\ conn[s] = "open"
  /\ IF userId = NoUser
       THEN /\ out' = {Emit(s, "bet_error", "Not authenticated")}
            /\ UNCHANGED <<dbVars, submits, updates, nRequests>>
     ELSE IF roundId # currentRound.startTime
       THEN /\ out' = {Emit(s, "bet_error", "Round mismatch")}
            /\ UNCHANGED <<dbVars, submits, updates, nRequests>>
     ELSE IF Insufficient(balance[userId], totalAmount)
       THEN /\ out' = {Emit(s, "bet_error", "Insufficient balance")}
            /\ UNCHANGED <<dbVars, submits, updates, nRequests>>
     ELSE \/ /\ nRequests < MaxRequests
             /\ balance' = [balance EXCEPT ![userId] = @ - totalAmount]
             /\ transactions' = InsertBets(transactions, userId, bets,
                                            currentRound.startTime, NumKeys(bets))
             /\ game_rounds' = game_rounds
             /\ submits' = submits \cup
                  {[sock |-> s, userId |-> userId, roundId |-> roundId,
                    bets |-> bets, totalAmount |-> totalAmount,
                    currentBalance |-> balance[userId], obj |-> LiveObj]}
             /\ nRequests' = nRequests + 1
             /\ out' = {}
          \/ \* a statement or the commit throws: rollback, catch (txErr)
             /\ out' = {Emit(s, "bet_error", "Server DB error")}
             /\ UNCHANGED <<dbVars, submits, updates, nRequests>>
  /\ UNCHANGED <<engine, now, roundVars, sockVars, updates, settle, inserts>>

\* The code after await conn.commit(): the snapshot goes into the finalBets
\* of whatever round is current now.
submitStore(h) ==
  /\ Idle
  /\ IsLucky
  /\ currentRound' =
       [currentRound EXCEPT !.finalBets =
          MapSet(@, h.sock, [key |-> h.sock, userId |-> h.userId,
                             bets |-> h.bets, totalAmount |-> h.totalAmount])]
  /\ submits' = submits \ {h}
  /\ sessionBalance' =
       IF h.obj.gen = 0 THEN SetBalance(h.sock, h.currentBalance - h.totalAmount)
       ELSE sessionBalance
  /\ out' = {Emit(h.sock, "bet_accepted", h.currentBalance - h.totalAmount)}
  /\ UNCHANGED <<engine, now, roundNo, broadcasts, conn, userSessions, auths,
                 nAuths, pendingBets, dbVars, updates, nRequests, settle,
                 inserts>>

\* ------------------------------------------------- timers engine: the round
\* A timer runs when it is the next one due; the clock is then at its due
\* instant, or later when the timer was set late.
TimerRuns(k) == now' = Max(now, currentRound.timers[k])

\* emitStartRound, run by round.timers.start
emitStartRound ==
  /\ TimerDue("start")
  /\ TimerRuns("start")
  /\ currentRound' = Fired("start")
  /\ inserts' = inserts \cup {currentRound.startTime}
  /\ broadcasts' = broadcasts \cup {<<"start_round", currentRound.startTime>>}
  /\ out' = {Emit("all", "start_round", currentRound.startTime)}
  /\ UNCHANGED <<engine, roundNo, sockVars, dbVars, submits, updates, nRequests, settle>>

\* emitFreezeBets, run by round.timers.freeze
emitFreezeBets ==
  /\ TimerDue("freeze")
  /\ currentRound.timers.start = NoTimer
  /\ TimerRuns("freeze")
  /\ currentRound' = Fired("freeze")
  /\ broadcasts' = broadcasts \cup {<<"freeze_bets", currentRound.startTime>>}
  /\ out' = {Emit("all", "freeze_bets", currentRound.startTime)}
  /\ UNCHANGED <<engine, roundNo, sockVars, dbVars, submits, updates, nRequests, settle,
                 inserts>>

\* A draw that can also give 6
WinningLines_wide == 1..(NumLines + 1)

\* Math.floor(Math.random() * 5) + 1
WinningLines == 1..NumLines

\* A run of the result processing at the await of persistRoundResult.
\* persistedRoundId is what persistRoundResult found in
\* round.persistedRoundId when it was called, before its await (part_001:70);
\* sock and obj are the session the run holds while it awaits the SELECT of
\* the balance.
NewRun == [pc |-> "persist", idx |-> 1, userId |-> NoUser, winAmount |-> 0,
           sock |-> "none", obj |-> LiveObj, persistedRoundId |-> Null]

\* roundId: round.persistedRoundId || round.startTime
ResultRoundId(round) ==
  IF round.persistedRoundId # Null THEN round.persistedRoundId ELSE round.startTime

\* emitRoundResultAndProcess, run by round.timers.result, up to the await of
\* persistRoundResult
emitRoundResultAndProcess ==
  /\ TimerDue("result")
  /\ currentRound.timers.start = NoTimer
  /\ currentRound.timers.freeze = NoTimer
  /\ TimerRuns("result")
  /\ \E w \in WinningLines :
       currentRound' = [Fired("result") EXCEPT !.winningLine = w]
  /\ settle' = Append(settle, [NewRun EXCEPT !.persistedRoundId =
                                         currentRound.persistedRoundId])
  /\ out' = {}
  /\ UNCHANGED <<engine, roundNo, broadcasts, sockVars, dbVars, submits, updates,
                 nRequests, inserts>>

\* A payout that pays the stake back, without the multiplier
WinAmount_stake(bets, winningLine) == bets[winningLine]

\* betOnWinningLine * WIN_MULTIPLIER
WinAmount(bets, winningLine) == bets[winningLine] * WIN_MULTIPLIER

\* "now" in what follows is Date.now() when the finally block runs: the
\* instant the result timer ran, or LatencyMs later.
\* A loop after which the round is not replaced
ResultLoop_noFinally(p, emitted, round) ==
  IF p.idx <= Len(currentRound.finalBets)
    THEN LET e == currentRound.finalBets[p.idx] IN
         /\ settle' = <<[p EXCEPT !.pc = "tx", !.userId = e.userId,
                           !.winAmount = WinAmount(e.bets, currentRound.winningLine)]>>
         /\ out' = emitted
         /\ currentRound' = round
         /\ UNCHANGED <<now, roundNo, broadcasts>>
    ELSE /\ settle' = <<>>
         /\ out' = emitted
         /\ currentRound' = round
         /\ UNCHANGED <<now, roundNo, broadcasts>>

\* The head of  for (const [socketId, snapshot] of round.finalBets.entries())
\* for the run p standing before entry p.idx, and what follows it without an
\* await: the next payout is prepared, or, the Map being exhausted,
\* round_result is broadcast and the finally block makes the next round.
\* emitted: what this callback has emitted before reaching the loop head;
\* round: currentRound as this callback leaves it.
ResultLoop(p, emitted, round) ==
  IF p.idx <= Len(currentRound.finalBets)
    THEN LET e == currentRound.finalBets[p.idx] IN
         /\ settle' = <<[p EXCEPT !.pc = "tx", !.userId = e.userId,
                           !.winAmount = WinAmount(e.bets, currentRound.winningLine)]>>
         /\ out' = emitted
         /\ currentRound' = round
         /\ UNCHANGED <<roundNo, broadcasts>>
         /\ now' = now
    ELSE /\ settle' = <<>>
         /\ now' \in {now, now + LatencyMs}
         /\ roundNo' = roundNo + 1
         /\ IF engine = "timers"
              THEN /\ broadcasts' = broadcasts \cup
                        {<<"round_result", currentRound.startTime>>}
                   /\ out' = emitted \cup
                        {Emit("all", "round_result",
                              <<ResultRoundId(round), currentRound.winningLine>>)}
                   /\ currentRound' =
                        scheduleRoundTimers(
                          createRound(currentRound.startTime + ROUND_DURATION_MS),
                          now')
              ELSE \* part_001:673-679: no broadcast, the next round starts now
                   /\ broadcasts' = broadcasts
                   /\ out' = emitted
                   /\ currentRound' = createRound_interval(now')

\* The statement of persistRoundResult and the code after it (it catches
\* its own errors): for a round that had no persistedRoundId the fallback
\* INSERT, whose insertId the round takes; for one that had, the UPDATE of
\* that row; or the statement throws and nothing is written.
resultPersisted ==
  LET p == settle[1]
      insertId == Len(game_rounds) + 1
  IN
  /\ Ready
  /\ IsLucky
  /\ Len(settle) = 1 /\ p.pc = "persist"
  /\ \/ /\ p.persistedRoundId = Null
        /\ game_rounds' =
             Append(game_rounds,
                    RoundRow(Null, currentRound.startTime, currentRound.endTime,
                             currentRound.winningLine))
        /\ ResultLoop(p, {}, [currentRound EXCEPT !.persistedRoundId = insertId])
     \/ /\ p.persistedRoundId # Null
        /\ game_rounds' =
             [game_rounds EXCEPT ![p.persistedRoundId] =
                [@ EXCEPT !.end_time = currentRound.endTime,
                          !.winning_line = currentRound.winningLine]]
        /\ ResultLoop(p, {}, currentRound)
     \/ /\ game_rounds' = game_rounds
        /\ ResultLoop(p, {}, currentRound)
  /\ UNCHANGED <<engine, sockVars, balance, transactions, submits, updates,
                 nRequests, inserts>>

\* The INSERT of persistRoundStart for the round that started at r and the
\* code after it: the round has a row with its start_time and takes the
\* row's insertId; or the INSERT throws and the error is logged.
persistRoundStart(r) ==
  /\ Idle
  /\ inserts' = inserts \ {r}
  /\ \/ /\ game_rounds' = Append(game_rounds, RoundRow(Null, r, Null, Null))
        /\ currentRound' =
             IF currentRound.startTime = r
               THEN [currentRound EXCEPT !.persistedRoundId = Len(game_rounds) + 1]
               ELSE currentRound
     \/ UNCHANGED <<game_rounds, currentRound>>
  /\ out' = {}
  /\ UNCHANGED <<engine, now, roundNo, broadcasts, sockVars, balance,
                 transactions, submits, updates, nRequests, settle>>

\* The payout transaction of one snapshot and the code after it up to the
\* next await.
resultPayout ==
  LET p == settle[1]
      hit == FirstSessionOf(userSessions, p.userId)
      \* for (const [sId, session] of userSessions.entries()): the SELECT
      \* of the fresh balance is awaited for the first session of the user
      Notify ==
        IF hit = 0
          THEN ResultLoop([p EXCEPT !.idx = @ + 1], {}, currentRound)
          ELSE /\ settle' = <<[p EXCEPT !.pc = "notify",
                                  !.sock = userSessions[hit].key,
                                  !.obj = LiveObj]>>
               /\ out' = {}
               /\ UNCHANGED <<now, currentRound, roundNo, broadcasts>>
  IN
  /\ Ready
  /\ IsLucky
  /\ Len(settle) = 1 /\ p.pc = "tx"
  /\ \/ \* the transaction commits
        /\ IF p.winAmount > 0
             THEN /\ balance' = [balance EXCEPT ![p.userId] = @ + p.winAmount]
                  /\ transactions' = Insert(transactions,
                       WinRow(p.userId, p.winAmount, currentRound.startTime))
             ELSE UNCHANGED <<balance, transactions>>
        /\ Notify
     \/ \* a statement throws: rollback, logged (txErr)
        /\ UNCHANGED <<balance, transactions>>
        /\ Notify
     \/ \* getConnection throws: logged, next snapshot (innerErr)
        /\ UNCHANGED <<balance, transactions>>
        /\ ResultLoop([p EXCEPT !.idx = @ + 1], {}, currentRound)
  /\ UNCHANGED <<engine, sockVars, game_rounds, submits, updates, nRequests,
                 inserts>>

\* SELECT balance for the targeted round_result, and the code after it
resultNotify ==
  LET p == settle[1] IN
  /\ Ready
  /\ IsLucky
  /\ Len(settle) = 1 /\ p.pc = "notify"
  /\ \/ /\ ResultLoop([p EXCEPT !.idx = @ + 1],
                         {Emit(p.sock, "round_result",
                               <<ResultRoundId(currentRound), currentRound.winningLine,
                                 p.winAmount, balance[p.userId]>>)},
                         currentRound)
        /\ sessionBalance' =
             IF p.obj.gen = 0 THEN SetBalance(p.sock, balance[p.userId])
             ELSE sessionBalance
     \/ \* the query throws: logged, next snapshot (innerErr)
        /\ ResultLoop([p EXCEPT !.idx = @ + 1], {}, currentRound)
        /\ sessionBalance' = sessionBalance
  /\ UNCHANGED <<engine, conn, userSessions, auths, nAuths, pendingBets, dbVars,
                 submits, updates, nRequests, inserts>>

\* --------------------------------------------- interval engine: the round
\* The instant of the first tick of setInterval(..., 500) that finds
\* something to do: ticks are on time and the offsets are multiples of 500.
NextDue_interval ==
  IF ~currentRound.startAnnounced THEN currentRound.startTime
  ELSE IF ~currentRound.freezeAnnounced THEN currentRound.freezeTime
  ELSE currentRound.resultTime

\* part_001:561-685, one run of the callback of setInterval
tick_interval ==
  LET t == Max(now, NextDue_interval)
      start == ~currentRound.startAnnounced /\ t >= currentRound.startTime
      freeze == ~currentRound.freezeAnnounced /\ t >= currentRound.freezeTime
      result == currentRound.winningLine = Null /\ t >= currentRound.resultTime
      rid == currentRound.startTime
  IN
  /\ Ready
  /\ engine = "interval"
  /\ currentRound.winningLine = Null
  /\ now' = t
  /\ \E w \in WinningLines :
       currentRound' =
         [currentRound EXCEPT
            !.startAnnounced = @ \/ start,
            !.freezeAnnounced = @ \/ freeze,
            !.winningLine = IF result THEN w ELSE @]
  /\ settle' = IF result
                 THEN Append(settle, [NewRun EXCEPT !.persistedRoundId =
                                        currentRound.persistedRoundId])
                 ELSE settle
  /\ inserts' = IF start THEN inserts \cup {rid} ELSE inserts
  /\ broadcasts' = broadcasts
       \cup (IF start THEN {<<"start_round", rid>>} ELSE {})
       \cup (IF freeze THEN {<<"freeze_bets", rid>>} ELSE {})
  /\ out' = (IF start THEN {Emit("all", "start_round", rid)} ELSE {})
       \cup (IF freeze THEN {Emit("all", "freeze_bets", rid)} ELSE {})
  /\ UNCHANGED <<engine, roundNo, sockVars, dbVars, submits, updates, nRequests>>

\* ------------------------------------------------------------ server.js
\* A GameRound that gives every round the id of the first
GameRound_reused(s) ==
  [id |-> StartClock,
   startTime |-> s,
   freezeTime |-> s + FREEZE_MS_server,
   endTime |-> s + END_MS_server,
   nextRoundTime |-> s + NEXT_ROUND_MS_server,
   isBettingOpen |-> TRUE,
   winningLine |-> Null,
   finalBets |-> <<>>]

\* class GameRound, server.js:38-88; s is Date.now()
GameRound(s) ==
  [id |-> s,
   startTime |-> s,
   freezeTime |-> s + FREEZE_MS_server,
   endTime |-> s + END_MS_server,
   nextRoundTime |-> s + NEXT_ROUND_MS_server,
   isBettingOpen |-> TRUE,
   winningLine |-> Null,
   finalBets |-> <<>>]

\* betData.bets[`line${currentRound.winningLine}`] || 0, times 2
WinAmount_server(bets, winningLine) ==
  IF winningLine = Null THEN 0 ELSE bets[winningLine] * WIN_FACTOR_server

\* The Map a run of processRoundResults iterates: the finalBets of the round
\* that was current when the run began, which is live while that round is
\* current and is no longer written once it has been replaced.
MapOf(run) ==
  IF run.round = currentRound.id THEN currentRound.finalBets ELSE run.map

\* The first entry from i on that has won something, or Len + 1
NextWinner(map, i, w) ==
  LET hits == {j \in i..Len(map) : WinAmount_server(map[j].bets, w) > 0}
  IN IF hits = {} THEN Len(map) + 1 ELSE CHOOSE j \in hits : \A k \in hits : j <= k

\* io.to(socketId).emit('round_end', ...) to the first session of the user
RoundEnd(sess, user, w, winAmount, newBalance) ==
  LET hit == FirstSessionOf(sess, user)
  IN IF hit = 0 THEN {}
     ELSE {Emit(sess[hit].key, "round_end",
                <<w, winAmount, newBalance[sess[hit].key]>>)}

\* server.js:276-287, the entries i..j-1 that have won nothing
LoserNotices(map, i, j, sess, w) ==
  UNION {RoundEnd(sess, map[k].userId, w, 0, sessionBalance) : k \in i..(j - 1)}

\* server.js:312-316
place_bet_server(s) ==
  /\ Ready
  /\ engine = "server"
  /\ conn[s] = "open"
  /\ out' = {Emit(s, "place_bet_ack", <<TRUE>>)}
  /\ UNCHANGED <<engine, now, roundVars, sockVars, dbVars, submits, updates,
                 nRequests, settle, inserts>>

\* socket.on('update_pending_bet') up to the end of the SELECT it awaits
update_pending_bet(s, lineNumber, amount, operation) ==
  /\ Ready
  /\ engine = "server"
  /\ conn[s] = "open"
  /\ IF SessionOf(s).userId = NoUser
       THEN /\ out' = {Emit(s, "bet_error", "Not authenticated")}
            /\ UNCHANGED <<updates, nRequests>>
     ELSE IF ~currentRound.isBettingOpen
       THEN /\ out' = {Emit(s, "bet_error", "Betting is closed")}
            /\ UNCHANGED <<updates, nRequests>>
     ELSE \/ /\ nRequests < MaxRequests_server
             /\ updates' = updates \cup
                  {[sock |-> s, line |-> lineNumber, amount |-> amount,
                    operation |-> operation,
                    currentBalance |-> balance[SessionOf(s).userId],
                    obj |-> LiveObj]}
             /\ nRequests' = nRequests + 1
             /\ out' = {}
          \/ \* the query throws
             /\ out' = {Emit(s, "bet_error", "Failed to update bet")}
             /\ UNCHANGED <<updates, nRequests>>
  /\ UNCHANGED <<engine, now, roundVars, sockVars, dbVars, submits, settle, inserts>>

\* The code of update_pending_bet after the SELECT, server.js:382-410
updateStore(u) ==
  LET old == Val(ObjBets(u), u.line)
      new == IF u.operation = "add" THEN old + u.amount
             ELSE Max(0, old - u.amount)
  IN
  /\ Idle
  /\ engine = "server"
  /\ IF u.operation = "add" /\ Insufficient(u.currentBalance, u.amount)
       THEN /\ out' = {Emit(u.sock, "bet_error", "Insufficient balance")}
            /\ updates' = updates \ {u}
            /\ UNCHANGED <<pendingBets, sessionBalance, submits>>
       ELSE /\ SessionWrite(u, Put(ObjBets(u), u.line, new), u.currentBalance,
                            submits, updates \ {u})
            /\ out' = {Emit(u.sock, "pending_bet_updated", <<u.line, new>>)}
  /\ UNCHANGED <<engine, now, roundVars, conn, userSessions, auths, nAuths,
                 dbVars, nRequests, settle, inserts>>

\* socket.on('submit_final_bets') of server.js up to await connection.commit();
\* roundId is data.roundId, which the handler does not read
submit_final_bets_server(s, roundId) ==
  LET userId == SessionOf(s).userId
      bets == pendingBets[s]
      totalAmount == SumBets(bets)
  IN
  /\ Ready
  /\ engine = "server"
  /\ conn[s] = "open"
  /\ IF userId = NoUser
       THEN /\ out' = {Emit(s, "bet_error", "Not authenticated")}
            /\ UNCHANGED <<dbVars, submits, nRequests>>
     ELSE IF currentRound.isBettingOpen
       THEN /\ out' = {Emit(s, "bet_error", "Betting still open")}
            /\ UNCHANGED <<dbVars, submits, nRequests>>
     ELSE IF totalAmount = 0
       THEN /\ out' = {Emit(s, "final_bets_submitted", "No bets to submit")}
            /\ UNCHANGED <<dbVars, submits, nRequests>>
     ELSE IF Insufficient(balance[userId], totalAmount)
       THEN /\ out' = {Emit(s, "bet_error", "Insufficient balance for final bets")}
            /\ UNCHANGED <<dbVars, submits, nRequests>>
     ELSE \/ /\ nRequests < MaxRequests_server
             /\ balance' = [balance EXCEPT ![userId] = @ - totalAmount]
             /\ transactions' = InsertBets(transactions, userId, bets, Null,
                                            NumKeys(bets))
             /\ game_rounds' = game_rounds
             /\ submits' = submits \cup
                  {[sock |-> s, userId |-> userId, roundId |-> roundId,
                    bets |-> bets, totalAmount |-> totalAmount,
                    currentBalance |-> balance[userId], obj |-> LiveObj,
                    held |-> SessionBets]}
             /\ nRequests' = nRequests + 1
             /\ out' = {}
          \/ \* a statement or the commit throws
             /\ out' = {Emit(s, "bet_error", "Failed to submit final bets")}
             /\ UNCHANGED <<dbVars, submits, nRequests>>
  /\ UNCHANGED <<engine, now, roundVars, sockVars, updates, settle, inserts>>

\* The code after await connection.commit(), server.js:474-490
submitStore_server(h) ==
  /\ Idle
  /\ engine = "server"
  /\ currentRound' =
       [currentRound EXCEPT !.finalBets =
          MapSet(@, h.userId, [key |-> h.userId, userId |-> h.userId,
                               bets |-> LocalBets(h),
                               totalAmount |-> h.totalAmount])]
  /\ SessionWrite(h, ZeroBets, ObjBalance(h) - h.totalAmount,
                  {Parted(g, h) : g \in submits \ {h}}, updates)
  /\ out' = {Emit(h.sock, "final_bets_submitted",
                  <<LocalBets(h), ObjBalance(h) - h.totalAmount>>)}
  /\ UNCHANGED <<engine, now, roundNo, broadcasts, conn, userSessions, auths,
                 nAuths, dbVars, nRequests, settle, inserts>>

\* The instant of the next tick of setInterval(..., 1000) that finds
\* something to do (the others only emit timer_update): ticks are on time and
\* the round's instants are multiples of 1000 after its start.
NextDue_server ==
  IF now < currentRound.freezeTime THEN currentRound.freezeTime
  ELSE IF now < currentRound.freezeTime + WINNER_DELAY_MS_server
    THEN currentRound.freezeTime + WINNER_DELAY_MS_server
  ELSE IF now < currentRound.endTime THEN currentRound.endTime
  ELSE now + TICK_MS_server

\* A run of processRoundResults standing at the await of getConnection for
\* entry idx
ServerRun(idx, e, w, rid) ==
  [idx |-> idx, userId |-> e.userId,
   winAmount |-> WinAmount_server(e.bets, w), round |-> rid, map |-> <<>>]

\* server.js:135-175, one run of the callback of setInterval
tick_server ==
  LET t == NextDue_server
      freeze == currentRound.isBettingOpen /\ t >= currentRound.freezeTime
      winner == currentRound.winningLine = Null
                /\ t >= currentRound.freezeTime + WINNER_DELAY_MS_server
      process == t >= currentRound.endTime
      next == t >= currentRound.nextRoundTime
      rid == currentRound.id
      map == currentRound.finalBets
  IN
  /\ Ready
  /\ engine = "server"
  /\ now' = t
  /\ \E w \in (IF winner THEN WinningLines ELSE {currentRound.winningLine}) :
       LET round == [currentRound EXCEPT
                       !.isBettingOpen = @ /\ ~freeze, !.winningLine = w]
           first == NextWinner(map, 1, w)
           runs == IF process /\ first <= Len(map)
                     THEN Append(settle, ServerRun(first, map[first], w, rid))
                     ELSE settle
       IN
       /\ currentRound' = IF next THEN GameRound(t) ELSE round
       /\ settle' = IF next
                      THEN [i \in 1..Len(runs) |->
                              IF runs[i].round = rid
                                THEN [runs[i] EXCEPT !.map = map] ELSE runs[i]]
                      ELSE runs
       /\ out' = (IF freeze THEN {Emit("all", "freeze_bets", rid)} ELSE {})
            \cup (IF winner THEN {Emit("all", "announce_winner", <<rid, w>>)} ELSE {})
            \cup (IF process
                    THEN LoserNotices(map, 1, first, userSessions, w) ELSE {})
            \cup (IF next THEN {Emit("all", "start_bet", t)} ELSE {})
  /\ broadcasts' = broadcasts
       \cup (IF freeze THEN {<<"freeze_bets", rid>>} ELSE {})
       \cup (IF winner THEN {<<"announce_winner", rid>>} ELSE {})
       \cup (IF next THEN {<<"start_bet", t>>} ELSE {})
  /\ roundNo' = IF next THEN roundNo + 1 ELSE roundNo
  /\ UNCHANGED <<engine, sockVars, dbVars, submits, updates, nRequests, inserts>>

\* The payout transaction of run r of processRoundResults, server.js:222-262,
\* and the code after it up to the next await: what currentRound is now is
\* read again
processRoundResults(r) ==
  LET p == settle[r]
      w == currentRound.winningLine
      map == MapOf(p)
      j == NextWinner(map, p.idx + 1, w)
      hit == FirstSessionOf(userSessions, p.userId)
      rest == IF j <= Len(map)
                THEN [settle EXCEPT ![r] =
                        [p EXCEPT !.idx = j, !.userId = map[j].userId,
                                  !.winAmount = WinAmount_server(map[j].bets, w)]]
                ELSE RemoveAt(settle, r)
  IN
  /\ Idle
  /\ engine = "server"
  /\ settle' = rest
  /\ \/ \* the transaction commits
        /\ balance' = [balance EXCEPT ![p.userId] = @ + p.winAmount]
        /\ transactions' = Insert(transactions,
                                  WinRow(p.userId, p.winAmount, currentRound.id))
        /\ game_rounds' = Append(game_rounds,
                                 RoundRow(currentRound.id, "NOW()", "NOW()", w))
        /\ sessionBalance' =
             IF hit = 0 THEN sessionBalance
             ELSE [sessionBalance EXCEPT ![userSessions[hit].key] = balance'[p.userId]]
        /\ out' = RoundEnd(userSessions, p.userId, w, p.winAmount,
                           [s \in Sockets |-> balance'[p.userId]])
                  \cup LoserNotices(map, p.idx + 1, j, userSessions, w)
     \/ \* a statement throws: logged
        /\ UNCHANGED <<balance, transactions, game_rounds, sessionBalance>>
        /\ out' = LoserNotices(map, p.idx + 1, j, userSessions, w)
  /\ UNCHANGED <<engine, now, roundVars, conn, userSessions, auths, nAuths,
                 pendingBets, submits, updates, nRequests, inserts>>

\* ------------------------------------------------------------ specification
InitTimers ==
  /\ engine = "timers"
  /\ currentRound = scheduleRoundTimers(createRound(StartClock), StartClock)

InitInterval ==
  /\ engine = "interval"
  /\ currentRound = createRound_interval(StartClock)

\* server.js: currentRound = new GameRound(), then startGameEngine()
InitServer ==
  /\ engine = "server"
  /\ currentRound = GameRound(StartClock)

Init ==
  /\ (InitTimers \/ InitInterval \/ InitServer)
  /\ now = StartClock
  /\ roundNo = 1
  /\ conn = [s \in Sockets |-> "open"]
  /\ userSessions = <<>>
  /\ balance = [u \in Users |-> InitBalance]
  /\ transactions = <<>>
  /\ pendingBets = [s \in Sockets |-> ZeroBets]
  /\ submits = {}
  /\ updates = {}
  /\ nRequests = 0
  /\ settle = <<>>
  /\ auths = {}
  /\ nAuths = [s \in Sockets |-> 0]
  /\ game_rounds = <<>>
  /\ inserts = {}
  /\ sessionBalance = [s \in Sockets |-> 0]
  /\ broadcasts = IF engine = "server" THEN {<<"start_bet", StartClock>>} ELSE {}
  /\ out = {}

Next ==
  \/ flush
  \/ \E s \in Sockets : \E t \in TokensOf(s) : authenticate(s, t)
  \/ \E a \in auths : authenticated(a)
  \/ \E s \in Sockets : disconnect(s)
  \/ \E s \in Sockets, l \in LineChoices, o \in Operations, a \in AmountChoices :
       place_bet(s, l, o, a)
  \/ \E s \in Sockets, r \in RoundIdChoices, b \in BetChoices, t \in TotalChoices :
       submit_final_bets(s, r, b, t)
  \/ \E h \in submits : submitStore(h)
  \/ emitStartRound
  \/ emitFreezeBets
  \/ emitRoundResultAndProcess
  \/ tick_interval
  \/ tick_server
  \/ \E r \in 1..Len(settle) : processRoundResults(r)
  \/ \E s \in Sockets : place_bet_server(s)
  \/ \E s \in Sockets, l \in LineChoices, a \in AmountChoices, o \in {"add", "remove"} :
       update_pending_bet(s, l, a, o)
  \/ \E u \in updates : updateStore(u)
  \/ \E s \in Sockets, r \in RoundIdChoices : submit_final_bets_server(s, r)
  \/ \E h \in submits : submitStore_server(h)
  \/ resultPersisted
  \/ resultPayout
  \/ resultNotify

Spec == Init /\ [][Next]_vars

\* ------------------------------------------------------------- observation
\* freeze_bets has been broadcast for the current round
Frozen ==
  IF engine = "timers" THEN currentRound.timers.freeze = NoTimer
  ELSE IF engine = "interval" THEN currentRound.freezeAnnounced
  ELSE ~currentRound.isBettingOpen

\* The key a snapshot is stored under in finalBets: socket.id in
\* game/luckyFive.js, socket.userId in server.js
FinalizeKey(h) == IF IsLucky THEN h.sock ELSE h.userId

\* betOnWinningLine * WIN_MULTIPLIER, or * 2
WinOf(bets, w) ==
  IF IsLucky THEN WinAmount(bets, w) ELSE WinAmount_server(bets, w)

RECURSIVE SeqSum(_)
SeqSum(q) == IF q = <<>> THEN 0 ELSE Head(q) + SeqSum(Tail(q))

\* A request at its await without the fields of the objects it holds
Core(r) ==
  LET q == [r EXCEPT !.obj = [LiveObj EXCEPT !.gen = r.obj.gen]] IN
  IF "held" \in DOMAIN r THEN [q EXCEPT !.held = SessionBets] ELSE q

\* The requests of S whose callback resumes in a step that leaves T at their
\* await
Resumed(S, T) == {h \in S : {Core(r) : r \in T} = {Core(r) : r \in S \ {h}}}

\* The finalizes the step accepts: their debit is committed in it
Accepted ==
  {h \in submits' : h.obj.gen = 0 /\ Core(h) \notin {Core(g) : g \in submits}}

SameRound == roundNo' = roundNo

\* ------------------------------------------------------------------ claims
\* C1: once freeze_bets has been broadcast for the current round, no place
\* request (place_bet, update_pending_bet) is acknowledged as a success and
\* none changes the bets kept for a connection.
C1_PlaceOnlyWhileOpen ==
  [][(Frozen /\ SameRound) =>
       /\ \A m \in out' : m.ev \notin {"place_bet_ack", "pending_bet_updated"}
       /\ IsLucky => currentRound'.bets = currentRound.bets
       /\ ~IsLucky => \A s \in Sockets :
                        pendingBets'[s] \in {pendingBets[s], ZeroBets}]_vars

\* C2: a connection that has finalized in the current round (its debit is
\* committed, whether or not its snapshot is stored yet) gets no further
\* finalize accepted in that round, and a stored snapshot is never replaced.
C2_FinalizeOncePerRound ==
  [][/\ \A h \in Accepted :
          /\ ~\E g \in submits : g.sock = h.sock
          /\ ~MapHas(currentRound.finalBets, FinalizeKey(h))
     /\ SameRound =>
          \A i \in 1..Len(currentRound.finalBets) :
            currentRound'.finalBets[i] = currentRound.finalBets[i]]_vars

\* C3: while freeze_bets has not been broadcast for the current round, no
\* finalize is accepted: no debit is committed and no snapshot is stored.
C3_NoFinalizeWhileOpen ==
  [][~Frozen =>
       /\ Accepted = {}
       /\ SameRound => currentRound'.finalBets = currentRound.finalBets]_vars

\* C4: an accepted finalize has a total equal to the sum of its five amounts,
\* and it takes exactly that total, which is more than nothing, from the
\* user's balance.
C4_TotalIsSumAndDebited ==
  [][\A h \in Accepted :
       /\ h.totalAmount = SumBets(h.bets)
       /\ h.totalAmount > 0
       /\ balance' = [balance EXCEPT ![h.userId] = @ - h.totalAmount]]_vars

\* C5: in no state between two callbacks is a finalize's debit committed
\* without its snapshot being in the finalBets of the current round.
C5_FinalizeAtomic ==
  \A h \in submits :
    \E i \in 1..Len(currentRound.finalBets) :
      /\ currentRound.finalBets[i].key = FinalizeKey(h)
      /\ currentRound.finalBets[i].totalAmount = h.totalAmount

\* The reply to a finalize that costs more than the balance
InsufficientFunds(m) ==
  /\ m.ev = "bet_error"
  /\ m.msg = IF IsLucky THEN "Insufficient balance"
             ELSE "Insufficient balance for final bets"

\* C6: no finalize is accepted whose total is more than the user's balance,
\* and the step that answers a finalize with the insufficient-balance error
\* changes no balance, adds no row to transactions, and stores no snapshot.
C6_InsufficientFundsRejected ==
  [][/\ \A h \in Accepted : h.totalAmount <= balance[h.userId]
     /\ (\E m \in out' : InsufficientFunds(m)) =>
          /\ balance' = balance
          /\ transactions' = transactions
          /\ currentRound'.finalBets = currentRound.finalBets
          /\ Accepted = {}]_vars

\* A finalize has just been answered with the insufficient-balance error by
\* an account that an earlier finalize or pending bets had left short.
C6_witness ==
  \E m \in out : InsufficientFunds(m) /\ m.to \in Sockets

\* C7: no finalize is accepted whose round id is not that of the current
\* round, and the step that answers one with the round-mismatch error sends
\* it to one connection and changes no balance and no snapshot.
C7_RoundMismatchRejected ==
  [][/\ \A h \in Accepted : h.roundId = currentRound.startTime
     /\ (\E m \in out' : m.ev = "bet_error" /\ m.msg = "Round mismatch") =>
          /\ \E s \in Sockets : \A m \in out' : m.to = s
          /\ balance' = balance
          /\ transactions' = transactions
          /\ currentRound'.finalBets = currentRound.finalBets]_vars

\* The rows of a table among rows, each counted as often as it was inserted,
\* and the sum of their amounts
RECURSIVE CountRows(_, _)
CountRows(table, rows) ==
  IF rows = {} THEN 0
  ELSE LET r == CHOOSE x \in rows : TRUE
       IN table[r] + CountRows(table, rows \ {r})

RECURSIVE SumRows(_, _)
SumRows(table, rows) ==
  IF rows = {} THEN 0
  ELSE LET r == CHOOSE x \in rows : TRUE
       IN table[r] * r.amount + SumRows(table, rows \ {r})

RowsOf(u, type) ==
  {row \in DOMAIN transactions : row.type = type /\ row.user = u}

SnapshotsOf(u) ==
  {i \in 1..Len(currentRound.finalBets) : currentRound.finalBets[i].userId = u}

\* C8: while the first round is current, a user has no more win rows than
\* snapshots in the round: no snapshot is credited twice.
C8_PayoutOncePerSnapshot ==
  roundNo = 1 =>
    \A u \in Users :
      CountRows(transactions, RowsOf(u, "win")) <= Cardinality(SnapshotsOf(u))

\* What the snapshots of user u in the current round cost, stake and win
TotalsOf(u) ==
  SeqSum([i \in 1..Len(currentRound.finalBets) |->
            IF i \in SnapshotsOf(u)
              THEN currentRound.finalBets[i].totalAmount ELSE 0])

StakesOf(u) ==
  SeqSum([i \in 1..Len(currentRound.finalBets) |->
            IF i \in SnapshotsOf(u)
              THEN SumBets(currentRound.finalBets[i].bets) ELSE 0])

WinsOf(u) ==
  SeqSum([i \in 1..Len(currentRound.finalBets) |->
            IF i \in SnapshotsOf(u)
              THEN WinOf(currentRound.finalBets[i].bets, currentRound.winningLine)
              ELSE 0])

\* C9: once the first round has its winning line and no finalize is under
\* way, a user whose bet rows are those of the snapshots the round holds
\* has no more than the initial balance less the totals of these snapshots
\* plus what their winning-line amounts win.
C9_BalanceAfterRound ==
  (roundNo = 1 /\ currentRound.winningLine # Null /\ submits = {}) =>
    \A u \in Users :
      SumRows(transactions, RowsOf(u, "bet")) = StakesOf(u) =>
        balance[u] <= InitBalance - TotalsOf(u) + WinsOf(u)

\* C10: the winning line of a round is unset when the round is made, is set
\* only once freeze_bets has been broadcast, is then one of 1..5, and does
\* not change while the round is current.
C10_WinningLineSetOnce ==
  [][/\ currentRound'.winningLine \in {Null} \cup Lines
     /\ ~SameRound => currentRound'.winningLine = Null
     /\ (SameRound /\ currentRound.winningLine # Null) =>
          currentRound'.winningLine = currentRound.winningLine
     /\ (SameRound /\ currentRound'.winningLine # currentRound.winningLine) =>
          Frozen']_vars

\* The winning line of the current round has been drawn and its payouts are
\* under way.
C10_witness ==
  /\ currentRound.winningLine \in Lines
  /\ settle # <<>>

\* The id a round is announced under: round.startTime in game/luckyFive.js,
\* currentRound.id in server.js
RoundId == IF IsLucky THEN currentRound.startTime ELSE currentRound.id

\* The event that tells every connection the winning line of a round
OutcomeEvent == IF IsLucky THEN "round_result" ELSE "announce_winner"

\* The step emits ev to every connection (io.emit)
Broadcast(ev) == \E m \in out' : m.to = "all" /\ m.ev = ev

\* C11: freeze_bets is broadcast for a round that is open and has no winning
\* line; a frozen round stays frozen and a drawn line stays drawn; the line is
\* drawn, and the outcome broadcast, only after the round's freeze_bets, the
\* outcome once; and a round is replaced only when its freeze_bets, its draw
\* and its outcome broadcast have happened.
C11_PhaseOrder ==
  [][/\ Broadcast("freeze_bets") =>
          /\ ~Frozen
          /\ currentRound.winningLine = Null
     /\ (SameRound /\ Frozen) => Frozen'
     /\ (SameRound /\ currentRound.winningLine # Null) =>
          currentRound'.winningLine # Null
     /\ (SameRound /\ currentRound'.winningLine # currentRound.winningLine) =>
          <<"freeze_bets", RoundId>> \in broadcasts'
     /\ Broadcast(OutcomeEvent) =>
          /\ <<"freeze_bets", RoundId>> \in broadcasts
          /\ <<OutcomeEvent, RoundId>> \notin broadcasts
          /\ \/ currentRound.winningLine # Null
             \/ SameRound /\ currentRound'.winningLine # Null
     /\ ~SameRound =>
          /\ <<"freeze_bets", RoundId>> \in broadcasts
          /\ currentRound.winningLine # Null
          /\ <<OutcomeEvent, RoundId>> \in broadcasts']_vars

\* A run of the result processing whose round is no longer the current one.
\* In game/luckyFive.js the run itself replaces the round, as its last step.
Superseded(run) == IF IsLucky THEN FALSE ELSE run.round # currentRound.id

\* The step is the resumption of run r of the result processing
StepOf(r) ==
  /\ SameRound
  /\ \/ settle' = RemoveAt(settle, r)
     \/ /\ Len(settle') = Len(settle)
        /\ settle'[r] # settle[r]
        /\ \A i \in 1..Len(settle) : i # r => settle'[i] = settle[i]

\* C12: a step of a result processing whose round has been superseded
\* credits no account, adds no row to transactions, broadcasts nothing, and
\* leaves the current round as it is.
C12_SupersededIsNoOp ==
  [][\A r \in 1..Len(settle) :
       (Superseded(settle[r]) /\ StepOf(r)) =>
          /\ balance' = balance
          /\ transactions' = transactions
          /\ \A m \in out' : m.to # "all"
          /\ currentRound' = currentRound]_vars

\* WIN_MULTIPLIER, or the 2 of server.js
Multiplier == IF IsLucky THEN WIN_MULTIPLIER ELSE WIN_FACTOR_server

\* The snapshot was finalized by a connection that has disconnected since;
\* server.js keeps a snapshot under the user, not the connection: there, the
\* user has no session left.
Gone(e) ==
  IF IsLucky THEN conn[e.key] = "closed"
  ELSE FirstSessionOf(userSessions, e.userId) = 0

\* The runs of the result processing that the step brings to stand before
\* the payout transaction of an entry of finalBets
PreparedRuns ==
  IF IsLucky
    THEN IF /\ settle' # <<>>
            /\ settle'[1].pc = "tx"
            /\ \/ settle = <<>>
               \/ settle[1].pc # "tx"
               \/ settle[1].idx # settle'[1].idx
           THEN {settle'[1]} ELSE {}
    ELSE (IF Len(settle') = Len(settle) + 1 THEN {settle'[Len(settle')]} ELSE {})
         \cup {settle'[r] : r \in {x \in 1..Len(settle) :
                                     StepOf(x) /\ Len(settle') = Len(settle)}}

\* The step is the payout transaction of run r
Pays(r) ==
  IF IsLucky THEN r = 1 /\ settle[1].pc = "tx" /\ settle' # settle
  ELSE StepOf(r)

PayableAfter(i) ==
  {j \in (i + 1)..Len(currentRound.finalBets) :
     IsLucky \/ currentRound.finalBets[j].bets[currentRound.winningLine] > 0}

\* C14: when the payout transaction of a snapshot fails (it has won something
\* and the balance is not credited), no row is added for it, and the result
\* processing goes on: with the targeted result of the same snapshot or with
\* the payout of the next snapshot that has one, and, when none is left, to
\* its end, which in game/luckyFive.js replaces the round.
C14_FailureSkipsOneUser ==
  [][\A r \in 1..Len(settle) :
       (Pays(r) /\ ~Superseded(settle[r])
          /\ settle[r].winAmount > 0 /\ balance' = balance) =>
         LET p == settle[r]
             rest == PayableAfter(p.idx)
             next == CHOOSE j \in rest : \A k \in rest : j <= k
         IN
         /\ transactions' = transactions
         /\ IF IsLucky
              THEN \/ /\ SameRound /\ settle' # <<>>
                      /\ settle'[1].idx = p.idx /\ settle'[1].pc = "notify"
                   \/ /\ rest # {}
                      /\ SameRound /\ settle' # <<>>
                      /\ settle'[1].idx = next /\ settle'[1].pc = "tx"
                   \/ /\ rest = {}
                      /\ settle' = <<>> /\ roundNo' = roundNo + 1
              ELSE IF rest # {}
                     THEN /\ Len(settle') = Len(settle)
                          /\ settle'[r].idx = next
                     ELSE settle' = RemoveAt(settle, r)]_vars

\* The payout of the first snapshot failed (it has won and its user has no
\* win row), and the payout of the second snapshot, of another user, has
\* been made since.
C14_witness ==
  /\ Len(currentRound.finalBets) = 2
  /\ currentRound.winningLine # Null
  /\ LET e1 == currentRound.finalBets[1]
         e2 == currentRound.finalBets[2]
         w == currentRound.winningLine
     IN /\ e1.userId # e2.userId
        /\ e1.bets[w] > 0 /\ e2.bets[w] > 0
        /\ RowsOf(e1.userId, "win") = {}
        /\ RowsOf(e2.userId, "win") # {}
        /\ settle # <<>> => (settle[1].idx = 2 /\ IsLucky)

\* C15: a round that has its winning line is replaced only when its outcome
\* has been broadcast to every connection, and the broadcast carries the id
\* the round was announced under and its winning line.
C15_OutcomeBroadcast ==
  [][/\ (~SameRound /\ currentRound.winningLine # Null) =>
          <<OutcomeEvent, RoundId>> \in broadcasts'
     /\ \A m \in out' :
          (m.to = "all" /\ m.ev = OutcomeEvent) =>
            m.msg = <<RoundId, IF SameRound THEN currentRound'.winningLine
                               ELSE currentRound.winningLine>>]_vars

\* The results the step sends to single connections
TargetedResults ==
  {m \in out' : m.to \in Sockets /\ m.ev \in {"round_result", "round_end"}}

\* C16: a targeted result is sent to the connection that finalized the
\* snapshot it is about, with that snapshot's winAmount and the user's
\* balance as the ledger has it; the snapshot of a connection that still has
\* its session gets one once its win is credited; and server.js, whose
\* snapshots name the user only, sends it to a connection of that user.
C16_TargetedResult ==
  [][/\ IsLucky =>
          /\ \A m \in TargetedResults :
               /\ settle # <<>>
               /\ settle[1].pc = "notify"
               /\ LET e == currentRound.finalBets[settle[1].idx] IN
                  /\ m.to = e.key
                  /\ m.msg[3] = e.bets[currentRound.winningLine] * Multiplier
                  /\ m.msg[4] = balance[e.userId]
          /\ (settle # <<>> /\ Pays(1) /\ balance' # balance) =>
               LET e == currentRound.finalBets[settle[1].idx] IN
               SessionOf(e.key).userId = e.userId =>
                 /\ settle' # <<>>
                 /\ settle'[1].pc = "notify"
                 /\ settle'[1].sock = e.key
     /\ (~IsLucky /\ \A r \in 1..Len(settle) : ~Superseded(settle[r])) =>
          \A m \in TargetedResults :
            \E i \in 1..Len(currentRound.finalBets) :
              currentRound.finalBets[i].userId = SessionOf(m.to).userId]_vars

\* C17: only a user who has a snapshot in the current round is credited, and
\* a new round begins without provisional stakes: its bets Map is empty
\* (game/luckyFive.js), every session's pendingBets are zero (server.js).
C17_ProvisionalDiscarded ==
  [][/\ (\A r \in 1..Len(settle) : ~Superseded(settle[r])) =>
          \A u \in Users :
            balance'[u] > balance[u] =>
              \E i \in 1..Len(currentRound.finalBets) :
                currentRound.finalBets[i].userId = u
     /\ ~SameRound =>
          IF IsLucky THEN currentRound'.bets = <<>>
          ELSE \A s \in Sockets : pendingBets'[s] = ZeroBets]_vars

\* The session a registry holds for socket s
SessionIn(sess, s) == IF MapHas(sess, s) THEN MapGet(sess, s) ELSE NoSession

\* C18: a step that answers with auth_error leaves the sessions as they are;
\* an authenticate goes to the database only for an account that exists, and
\* what it reads there is the account's balance; and the sessions change,
\* other than by a disconnect, only when an authenticate completes: the
\* calling connection then has one session, of the account, the reply
\* carries the account and the balance read, and every other connection's
\* session is as before.
C18_Authenticate ==
  [][/\ (\E m \in out' : m.ev = "auth_error") =>
          /\ userSessions' = userSessions
          /\ pendingBets' = pendingBets
          /\ auths' = auths
     /\ \A a \in auths' \ auths :
          /\ a.userId \in Users
          /\ a.balance = balance[a.userId]
     /\ (userSessions' # userSessions /\ conn' = conn) =>
          \E a \in auths :
            /\ auths' = auths \ {a}
            /\ SessionIn(userSessions', a.sock).userId = a.userId
            /\ Cardinality({i \in 1..Len(userSessions') :
                             userSessions'[i].key = a.sock}) = 1
            /\ \A s \in Sockets \ {a.sock} :
                 SessionIn(userSessions', s) = SessionIn(userSessions, s)
            /\ \E m \in out' : m.to = a.sock /\ m.msg = <<a.userId, a.balance>>
     /\ \A a \in auths \ auths' :
          SessionIn(userSessions', a.sock).userId = a.userId]_vars

\* A connection's session has been replaced: it finalized as one account,
\* has authenticated again since, and its session is of another account now.
C18_witness ==
  \E s \in Sockets :
    /\ IsLucky
    /\ nAuths[s] = 2
    /\ SessionIn(userSessions, s).userId \in Users
    /\ \E i \in 1..Len(currentRound.finalBets) :
         /\ currentRound.finalBets[i].key = s
         /\ currentRound.finalBets[i].userId # SessionIn(userSessions, s).userId

\* What the rows of user u in the table come to: a win row counts for the
\* user, a bet row against
LedgerSum(table, u) ==
  SumRows(table, {row \in DOMAIN table : row.type = "win" /\ row.user = u})
    - SumRows(table, {row \in DOMAIN table : row.type = "bet" /\ row.user = u})

\* C19: in every step a balance changes by exactly what the rows added to
\* transactions for the user come to, so that no state has a balance change
\* without its rows or rows without the balance change; and a finalize that is
\* answered with an error has changed no balance, added no row, and stores
\* no snapshot.
C19_AllOrNothing ==
  [][/\ \A u \in Users :
          balance'[u] - balance[u]
            = LedgerSum(transactions', u) - LedgerSum(transactions, u)
     /\ (\E m \in out' : m.ev = "bet_error") =>
          /\ balance' = balance
          /\ transactions' = transactions
          /\ Accepted = {}
          /\ currentRound'.finalBets = currentRound.finalBets]_vars

\* C20: the round is replaced only when no run of the result processing is
\* under way, and every step of a run reads the round the run was started for.
C20_NoCrossRound ==
  [][/\ ~SameRound => settle' = <<>>
     /\ \A r \in 1..Len(settle) : StepOf(r) => ~Superseded(settle[r])]_vars

\* The distance between the starts of two rounds that the engine is
\* configured with: ROUND_DURATION_MS, or the 33 s after which server.js
\* starts the next round
RoundDuration ==
  IF engine = "timers" THEN ROUND_DURATION_MS
  ELSE IF engine = "interval" THEN ROUND_DURATION_MS_interval
  ELSE NEXT_ROUND_MS_server

\* C21: the round that replaces a round starts exactly one round duration
\* after the start of the round it replaces, whatever the clock says when it
\* is made.
C21_StartTimeGrid ==
  [][~SameRound =>
       currentRound'.startTime = currentRound.startTime + RoundDuration]_vars

\* A step of the round engine: a timer or interval callback, or the
\* resumption of a result processing from an await
EngineStep ==
  \/ emitStartRound
  \/ emitFreezeBets
  \/ emitRoundResultAndProcess
  \/ tick_interval
  \/ tick_server
  \/ resultPersisted
  \/ resultPayout
  \/ resultNotify
  \/ \E r \in 1..Len(settle) : processRoundResults(r)

\* The transitions of the current round are scheduled: the three timers of
\* the setTimeout variant are set; the polling engines look at whatever round
\* is current at every tick.
Scheduled ==
  engine = "timers" =>
    \A k \in {"start", "freeze", "result"} : currentRound.timers[k] # NoTimer

\* C22: every round gets its winning line, and is then replaced by a round
\* whose transitions are scheduled, whichever statements of the result
\* processing fail.
C22_LoopNeverStops ==
  /\ (roundNo = 1) ~> (roundNo = 1 /\ currentRound.winningLine # Null)
  /\ (roundNo = 1 /\ currentRound.winningLine # Null)
       ~> (roundNo = 2 /\ Scheduled)

\* The offsets the engine is configured with: of the freeze, and of the
\* result (RESULT_OFFSET_MS; in server.js the 2000 that announceWinner waits
\* after the freeze)
FreezeOffset == IF IsLucky THEN FREEZE_OFFSET_MS ELSE FREEZE_MS_server

ResultOffset ==
  IF engine = "timers" THEN RESULT_OFFSET_MS
  ELSE IF engine = "interval" THEN RESULT_OFFSET_MS_interval
  ELSE WINNER_DELAY_MS_server

\* The instant the winning line of the current round is due
ResultTime ==
  IF IsLucky THEN currentRound.resultTime
  ELSE currentRound.freezeTime + WINNER_DELAY_MS_server

\* C23, as claimed: the result of every round is due RESULT_OFFSET after its
\* freeze, the freeze FREEZE_OFFSET after its start, the two offsets together
\* are no more than ROUND_DURATION, and freezeTime < resultTime < startTime +
\* ROUND_DURATION.
C23_OffsetsAsClaimed ==
  /\ currentRound.freezeTime = currentRound.startTime + FreezeOffset
  /\ ResultTime = currentRound.freezeTime + ResultOffset
  /\ FreezeOffset + ResultOffset <= RoundDuration
  /\ currentRound.freezeTime < ResultTime
  /\ ResultTime < currentRound.startTime + RoundDuration

\* C23, amended: in game/luckyFive.js the result of every round is due
\* RESULT_OFFSET after its start (in server.js 2000 ms after its freeze),
\* the freeze FREEZE_OFFSET after its start, and startTime < freezeTime <
\* resultTime < startTime + ROUND_DURATION.
C23_PhaseTimesOrdered ==
  /\ currentRound.freezeTime = currentRound.startTime + FreezeOffset
  /\ ResultTime = IF IsLucky THEN currentRound.startTime + ResultOffset
                  ELSE currentRound.freezeTime + ResultOffset
  /\ currentRound.startTime < currentRound.freezeTime
  /\ currentRound.freezeTime < ResultTime
  /\ ResultTime < currentRound.startTime + RoundDuration
  /\ IsLucky => currentRound.endTime = currentRound.startTime + RoundDuration
  /\ ~IsLucky => currentRound.nextRoundTime = currentRound.startTime + RoundDuration

\* The first round has been replaced: the round that is current was made by
\* the result processing, or by the tick at 33 s, after the clock had moved.
C23_witness ==
  /\ roundNo = 2
  /\ currentRound.startTime > StartClock
  /\ currentRound.winningLine = Null

\* The engine among clients that have a session: the state after both sockets
\* have authenticated, each as its own account, and the requests of such
\* clients.
LiveInit ==
  /\ (InitTimers \/ InitInterval \/ InitServer)
  /\ now = StartClock
  /\ roundNo = 1
  /\ conn = [s \in Sockets |-> "open"]
  /\ userSessions = <<[key |-> "s1", userId |-> "u1"], [key |-> "s2", userId |-> "u2"]>>
  /\ balance = [u \in Users |-> InitBalance]
  /\ transactions = <<>>
  /\ pendingBets = [s \in Sockets |-> ZeroBets]
  /\ submits = {}
  /\ updates = {}
  /\ nRequests = 0
  /\ settle = <<>>
  /\ auths = {}
  /\ nAuths = [s \in Sockets |-> 1]
  /\ game_rounds = <<>>
  /\ inserts = {}
  /\ sessionBalance = [s \in Sockets |-> InitBalance]
  /\ broadcasts = IF engine = "server" THEN {<<"start_bet", StartClock>>} ELSE {}
  /\ out = {}

LiveNext ==
  \/ flush
  \/ \E s \in Sockets : disconnect(s)
  \/ \E s \in Sockets, l \in LineChoices, o \in Operations, a \in AmountChoices :
       place_bet(s, l, o, a)
  \/ \E s \in Sockets, r \in RoundIdChoices, b \in BetChoices, t \in TotalChoices :
       submit_final_bets(s, r, b, t)
  \/ \E h \in submits : submitStore(h)
  \/ \E s \in Sockets : place_bet_server(s)
  \/ \E s \in Sockets, l \in LineChoices, a \in AmountChoices, o \in {"add", "remove"} :
       update_pending_bet(s, l, a, o)
  \/ \E u \in updates : updateStore(u)
  \/ \E s \in Sockets, r \in RoundIdChoices : submit_final_bets_server(s, r)
  \/ \E h \in submits : submitStore_server(h)
  \/ EngineStep

\* The event loop sends what a callback emitted as the callback returns, and
\* runs a due timer, and the continuation of a database call that has
\* returned, however many requests the clients send in between.
LiveSpec == LiveInit /\ [][LiveNext]_vars /\ WF_vars(flush) /\ SF_vars(EngineStep)

\* The first round, in which an account was debited, has been replaced after
\* a result processing whose database calls took LatencyMs, and the timers of
\* the next round are set.
C22_witness ==
  /\ engine = "timers"
  /\ roundNo = 2
  /\ Scheduled
  /\ now = RESULT_OFFSET_MS + LatencyMs
  /\ \E u \in Users : RowsOf(u, "bet") # {}

\* C24: once the winning line of the current round is drawn, no finalize is
\* accepted in the round (no debit is committed) and no snapshot enters its
\* finalBets.
C24_NoFinalizeAfterDraw ==
  [][(SameRound /\ currentRound.winningLine # Null) =>
       /\ Accepted = {}
       /\ currentRound'.finalBets = currentRound.finalBets]_vars

\* The finalizes whose snapshot the step stores: they resume from the await
\* of their commit
Stored == Resumed(submits, submits')

\* C25: the snapshot of an accepted finalize is stored in the finalBets of
\* the round whose id the finalize carried: that round is the current one when
\* the snapshot is stored.
C25_StoredInOwnRound ==
  [][\A h \in Stored : h.roundId = RoundId]_vars

BootClocks == {k * BootGrain : k \in 0..MaxBootClock}

BootStarts == {k * BootGrain : k \in 0..MaxBootStart}

\* A fast-forward by one slot, however many have passed
slotsPassed_one(start, t) == 1

\* Math.floor((now - currentRound.startTime) / ROUND_DURATION_MS) + 1, for
\* now - startTime >= ROUND_DURATION_MS
slotsPassed(start, t) == ((t - start) \div ROUND_DURATION_MS) + 1

\* part_001:417-422
bootstrapRound(round, t) ==
  IF round.startTime + ROUND_DURATION_MS <= t
    THEN createRound(round.startTime
                       + slotsPassed(round.startTime, t) * ROUND_DURATION_MS)
    ELSE round

\* (function bootstrap() { ... })(), run once as the module is loaded
bootstrap ==
  /\ engine = "timers"
  /\ roundNo = 1
  /\ currentRound.winningLine = Null
  /\ \A k \in {"start", "freeze", "result"} : currentRound.timers[k] = NoTimer
  /\ currentRound' = scheduleRoundTimers(bootstrapRound(currentRound, now), now)
  /\ UNCHANGED <<engine, now, roundNo, broadcasts, sockVars, dbVars, submits,
                 updates, nRequests, settle, inserts, out>>

\* The module state when bootstrap is called: let currentRound =
\* createRound(Date.now()), no timer set
BootInit ==
  /\ engine = "timers"
  /\ now \in BootClocks
  /\ \E s \in BootStarts : currentRound = createRound(s)
  /\ roundNo = 1
  /\ conn = [s \in Sockets |-> "open"]
  /\ userSessions = <<>>
  /\ balance = [u \in Users |-> InitBalance]
  /\ transactions = <<>>
  /\ pendingBets = [s \in Sockets |-> ZeroBets]
  /\ submits = {}
  /\ updates = {}
  /\ nRequests = 0
  /\ settle = <<>>
  /\ auths = {}
  /\ nAuths = [s \in Sockets |-> 0]
  /\ game_rounds = <<>>
  /\ inserts = {}
  /\ sessionBalance = [s \in Sockets |-> 0]
  /\ broadcasts = {}
  /\ out = {}

BootNext == bootstrap

BootSpec == BootInit /\ [][BootNext]_vars

\* C28: bootstrap keeps a round whose startTime + ROUND_DURATION is after
\* now as it is, and replaces any other by a round that starts a whole number
\* of ROUND_DURATION later; the round whose timers it sets has startTime +
\* ROUND_DURATION after now.
C28_BootstrapFastForward ==
  [][LET old == currentRound
         new == currentRound'
     IN /\ new.startTime + ROUND_DURATION_MS > now
        /\ new.endTime > now
        /\ \A k \in {"start", "freeze", "result"} : new.timers[k] # NoTimer
        /\ IF old.startTime + ROUND_DURATION_MS > now
             THEN new = scheduleRoundTimers(old, now)
             ELSE /\ new.startTime > old.startTime
                  /\ (new.startTime - old.startTime) % ROUND_DURATION_MS = 0
                  /\ new.freezeTime = new.startTime + FREEZE_OFFSET_MS
                  /\ new.resultTime = new.startTime + RESULT_OFFSET_MS]_vars

\* bootstrap has found the round more than two slots old and has set the
\* timers of a round that lies ahead of the clock.
C28_witness ==
  /\ currentRound.timers.start # NoTimer
  /\ currentRound.startTime >= 3 * ROUND_DURATION_MS
  /\ currentRound.startTime > now

\* ------------------------------------------------ requests with any values
\* What a client may send when it is not held to lines 1..5 and to amounts
\* above zero: a line the game does not have, and negative amounts and
\* totals.
WideLines == {StakeLine, NumLines + 1}

WideAmounts == {-MaxStake, MaxStake}

WideTotals == (-MaxTotal)..MaxTotal

WideBets == {[ZeroBets EXCEPT ![StakeLine] = a] : a \in WideAmounts}

\* The state after the first socket has authenticated; the second is
\* connected and has no session
WideInit ==
  /\ (InitTimers \/ InitInterval \/ InitServer)
  /\ now = StartClock
  /\ roundNo = 1
  /\ conn = [s \in Sockets |-> "open"]
  /\ userSessions = <<[key |-> "s1", userId |-> "u1"]>>
  /\ balance = [u \in Users |-> InitBalance]
  /\ transactions = <<>>
  /\ pendingBets = [s \in Sockets |-> ZeroBets]
  /\ submits = {}
  /\ updates = {}
  /\ nRequests = 0
  /\ settle = <<>>
  /\ auths = {}
  /\ nAuths = [s \in Sockets |-> IF s = "s1" THEN 1 ELSE 0]
  /\ game_rounds = <<>>
  /\ inserts = {}
  /\ sessionBalance = [s \in Sockets |-> IF s = "s1" THEN InitBalance ELSE 0]
  /\ broadcasts = IF engine = "server" THEN {<<"start_bet", StartClock>>} ELSE {}
  /\ out = {}

\* The engine among clients that send such requests
WideNext ==
  \/ flush
  \/ \E s \in Sockets, l \in WideLines, o \in {"add", "remove"}, a \in WideAmounts :
       place_bet(s, l, o, a)
  \/ \E s \in Sockets, r \in RoundIdChoices, b \in WideBets, t \in WideTotals :
       submit_final_bets(s, r, b, t)
  \/ \E h \in submits : submitStore(h)
  \/ \E s \in Sockets, l \in WideLines, a \in WideAmounts, o \in {"add", "remove"} :
       update_pending_bet(s, l, a, o)
  \/ \E u \in updates : updateStore(u)
  \/ \E s \in Sockets, r \in RoundIdChoices : submit_final_bets_server(s, r)
  \/ \E h \in submits : submitStore_server(h)
  \/ EngineStep

WideSpec == WideInit /\ [][WideNext]_vars

\* C26: a step that accepts a finalize, stores its snapshot or answers one
\* leaves no account with more than it had.
C26_FinalizeNeverCredits ==
  [][(\/ Accepted # {}
      \/ Stored # {}
      \/ \E m \in out' :
           m.ev \in {"bet_error", "bet_accepted", "final_bets_submitted"}) =>
       \A u \in Users : balance'[u] <= balance[u]]_vars

\* The WagerSet of connection s: its entry in the bets Map of the round, all
\* zero when it has none (game/luckyFive.js); the pendingBets of its session
\* (server.js)
Wager(round, pending, s) ==
  IF IsLucky
    THEN IF MapHas(round.bets, s) THEN MapGet(round.bets, s).bets ELSE ZeroBets
    ELSE pending[s]

\* place(line, amount, op) as claimed: add increases the line's stake by
\* amount, remove sets it to zero, the other lines stay
Placed(old, line, amount, op) ==
  IF op = "add" THEN Put(old, line, Val(old, line) + amount)
  ELSE Put(old, line, 0)

\* C29: a place request that is acknowledged leaves the connection with the
\* WagerSet it had (all zero when it had none) changed in the one line, by
\* the amount added or to zero, and the acknowledgement carries that whole
\* WagerSet.
C29_PlaceSemantics ==
  [][/\ IsLucky =>
          \A m \in out' :
            m.ev = "place_bet_ack" =>
              LET old == Wager(currentRound, pendingBets, m.to)
                  new == Wager(currentRound', pendingBets', m.to)
              IN /\ MapHas(currentRound'.bets, m.to)
                 /\ m.msg = <<TRUE, new>>
                 /\ \E l \in WideLines, a \in WideAmounts, o \in {"add", "remove"} :
                      new = Placed(old, l, a, o)
     /\ ~IsLucky =>
          \A u \in Resumed(updates, updates') :
            (u.obj.gen = 0 /\ \E m \in out' : m.ev = "pending_bet_updated") =>
              /\ pendingBets'[u.sock] =
                   Placed(pendingBets[u.sock], u.line, u.amount, u.operation)
              /\ \E m \in out' : m.to = u.sock /\ m.msg = pendingBets'[u.sock]]_vars

\* Five amounts, keyed by the lines 1..5, none below zero
WellFormed(b) == DOMAIN b = Lines /\ \A l \in Lines : b[l] >= 0

\* C30: every connection's WagerSet is five amounts keyed by lines 1..5, none
\* below zero, and while a round is current it changes only in a step that
\* answers a request of that connection.
C30_WagerSetWellFormed ==
  [][/\ \A s \in Sockets : WellFormed(Wager(currentRound', pendingBets', s))
     /\ SameRound =>
          \A s \in Sockets :
            Wager(currentRound', pendingBets', s) # Wager(currentRound, pendingBets, s)
              => \E m \in out' : m.to = s]_vars

\* A step that answers a place request (place_bet of game/luckyFive.js,
\* update_pending_bet of server.js), accepting or rejecting it, or that takes
\* one in up to the await of its query
PlaceStep ==
  \/ Resumed(updates, updates') # {}
  \/ \E u \in updates' \ updates : u.obj.gen = 0
  \/ \E m \in out' :
       \/ m.ev \in {"place_bet_ack", "pending_bet_updated"}
       \/ /\ m.ev = "bet_error"
          /\ m.msg \in {"Betting is closed", "Insufficient balance",
                        "Failed to update bet"}

\* C31: a step that takes in or answers a place request, accepted or
\* rejected, leaves every account's balance, the ledger entries, the
\* finalized map of the current round and the maps the running result
\* processings hold of earlier rounds as they were.
C31_PlaceLeavesLedger ==
  [][PlaceStep =>
       /\ balance' = balance
       /\ transactions' = transactions
       /\ currentRound'.finalBets = currentRound.finalBets
       /\ settle' = settle]_vars

\* A place request has just been answered while the ledger holds the debit
\* and the bet row of a finalize whose snapshot is in the round's map.
C31_witness ==
  /\ \E m \in out : m.ev \in {"place_bet_ack", "pending_bet_updated"}
  /\ \E u \in Users : balance[u] < InitBalance
  /\ currentRound.finalBets # <<>>

\* C32: a disconnect closes one connection; the step removes that
\* connection's session and no other, keeps the order of the sessions that
\* stay, and leaves the current round (its phase and its finalized map, the
\* entry of that connection included), the finalizes and result processings
\* that are under way and every account's balance and ledger entries as they
\* were.
C32_DisconnectFrame ==
  [][conn' # conn =>
       \E s \in Sockets :
         /\ conn[s] = "open"
         /\ conn' = [conn EXCEPT ![s] = "closed"]
         /\ ~MapHas(userSessions', s)
         /\ \A t \in Sockets \ {s} :
              /\ MapHas(userSessions', t) = MapHas(userSessions, t)
              /\ SessionIn(userSessions', t) = SessionIn(userSessions, t)
         /\ Len(userSessions') =
              Len(userSessions) - (IF MapHas(userSessions, s) THEN 1 ELSE 0)
         /\ currentRound'.finalBets = currentRound.finalBets
         /\ Frozen' = Frozen
         /\ currentRound'.winningLine = currentRound.winningLine
         /\ roundNo' = roundNo
         /\ balance' = balance
         /\ transactions' = transactions
         /\ pendingBets' = pendingBets]_vars

\* A connection has disconnected and its session is gone, while the snapshot
\* it finalized is in the round's map and the other connection still has its
\* session.
C32_witness ==
  /\ out = {}
  /\ \E s \in Sockets :
       /\ conn[s] = "closed"
       /\ ~MapHas(userSessions, s)
       /\ \E t \in Sockets \ {s} : MapHas(userSessions, t)
  /\ \E i \in 1..Len(currentRound.finalBets) : Gone(currentRound.finalBets[i])

\* The rows a step appends to a table, each with how many of it
AddedRows(old, new) ==
  [row \in DOMAIN new |-> new[row] - (IF row \in DOMAIN old THEN old[row] ELSE 0)]

\* The lines of a bets object that carry an amount other than zero
NonZeroLines(b) == {l \in DOMAIN b : b[l] # 0}

\* C35: the step that accepts a finalize appends bet rows of that user only,
\* one for each line of the submitted bets that is not zero, and their
\* amounts add up to what the step takes from the user's balance.
C35_BetRowsMatchDebit ==
  [][\A h \in Accepted :
       LET added == AddedRows(transactions, transactions')
           rows == {row \in DOMAIN added : added[row] > 0}
       IN /\ \A row \in rows : row.type = "bet" /\ row.user = h.userId
          /\ CountRows(added, rows) = Cardinality(NonZeroLines(h.bets))
          /\ SumRows(added, rows) = balance[h.userId] - balance'[h.userId]]_vars

\* C38: whatever a step tells the connections about a round (start_round,
\* freeze_bets, round_result to all and to one connection; start_bet and
\* announce_winner in server.js) names the round by one value, the round's
\* id, and a finalize the step accepts has submitted that value.
C38_OneRoundId ==
  [][/\ \A m \in out' :
          /\ m.ev \in {"start_round", "freeze_bets"} => m.msg = RoundId
          /\ m.ev \in {"round_result", "announce_winner"} => m.msg[1] = RoundId
          /\ m.ev = "start_bet" => m.msg = RoundId'
     /\ \A h \in Accepted : h.roundId = RoundId]_vars

\* C39: the round that replaces a round has a larger id than it, larger also
\* than the id in anything broadcast before, and no finalize that is under
\* way for the replaced round has named the id of the new one.
C39_RoundIdsIncrease ==
  [][~SameRound =>
       /\ RoundId' > RoundId
       /\ \A b \in broadcasts : b[2] < RoundId'
       /\ IsLucky => \A h \in submits' : h.roundId # RoundId']_vars

\* A round has been replaced while a finalize accepted for it had not yet
\* stored its snapshot, after the events of the replaced round were
\* broadcast.
C39_witness ==
  /\ roundNo = 2
  /\ submits # {}
  /\ \E b \in broadcasts : b[1] = "freeze_bets" /\ b[2] < RoundId

\* ------------------------------------------------ the rows of game_rounds
\* The engine among authenticated clients, with the INSERT of
\* persistRoundStart returning at any moment after the round has started, or
\* failing, or not returning at all.
PersistNext ==
  \/ LiveNext
  \/ \E r \in inserts : persistRoundStart(r)

PersistSpec == LiveInit /\ [][PersistNext]_vars

\* The rows of table that were written for the round known by id: its
\* start_time in game/luckyFive.js, its round_id in server.js
RoundRows(table, id) ==
  {i \in 1..Len(table) :
     IF IsLucky THEN table[i].start_time = id ELSE table[i].round_id = id}

\* C33: when a round whose line has been drawn is replaced, game_rounds
\* holds a row of that round with its winning line and, in
\* game/luckyFive.js, its end time, whether or not anyone had finalized or
\* was paid.
C33_OutcomePersisted ==
  [][(~SameRound /\ currentRound.winningLine # Null) =>
       \E i \in RoundRows(game_rounds', RoundId) :
         /\ game_rounds'[i].winning_line = currentRound.winningLine
         /\ IsLucky => game_rounds'[i].end_time = currentRound.endTime]_vars

\* C34: game_rounds never holds two rows of one round, and a round that has
\* a persistedRoundId keeps it.
C34_OneRowPerRound ==
  [][/\ \A i, j \in 1..Len(game_rounds') :
          (i # j /\ IsLucky) =>
            game_rounds'[i].start_time # game_rounds'[j].start_time
     /\ \A i, j \in 1..Len(game_rounds') :
          (i # j /\ ~IsLucky) =>
            game_rounds'[i].round_id # game_rounds'[j].round_id
     /\ (IsLucky /\ SameRound /\ currentRound.persistedRoundId # Null) =>
          currentRound'.persistedRoundId = currentRound.persistedRoundId]_vars

\* C37: the step that stores an accepted finalize leaves the connection's
\* session with the balance the debit left in the ledger, and reports that
\* balance; a targeted result that tells of a win reports the balance the
\* ledger holds and leaves it in the session it is sent to; and between the
\* credit of a win and the reading of the balance that is reported for it
\* the ledger balance of that user does not change.
C37_CacheFollowsLedger ==
  [][/\ \A h \in Stored :
          LET after == h.currentBalance - h.totalAmount IN
          MapHas(userSessions, h.sock) =>
            /\ sessionBalance'[h.sock] = after
            /\ \A m \in out' :
                 /\ (m.to = h.sock /\ m.ev = "bet_accepted") => m.msg = after
                 /\ (m.to = h.sock /\ m.ev = "final_bets_submitted") =>
                      m.msg[2] = after
     /\ \A m \in TargetedResults :
          LET win == IF IsLucky THEN m.msg[3] ELSE m.msg[2]
              newBalance == IF IsLucky THEN m.msg[4] ELSE m.msg[3]
              u == IF IsLucky THEN settle[1].userId ELSE SessionOf(m.to).userId
          IN win > 0 =>
               /\ newBalance = balance'[u]
               /\ MapHas(userSessions, m.to) => sessionBalance'[m.to] = balance'[u]
     /\ (/\ IsLucky
         /\ settle # <<>> /\ settle[1].pc = "notify" /\ settle[1].winAmount > 0
         /\ WinRow(settle[1].userId, settle[1].winAmount, RoundId)
              \in DOMAIN transactions
         /\ settle' # <<>> /\ settle'[1].pc = "notify") =>
          balance'[settle[1].userId] = balance[settle[1].userId]]_vars

====
